---- MODULE Spec2Model ----
(***************************************************************************)
(* SchnorrSecp256k1VerificationKey2019: the verification key object, its   *)
(* signer and verifier closures (detached JWS, b64:false), the key         *)
(* fingerprint, and the JSON-LD custom document loader.                    *)
(*                                                                         *)
(* JavaScript values are modelled by what the code observes of them:       *)
(*  - a JWK is a record of its members x, d, kid (Absent when the member   *)
(*    is missing) tagged "object"; undefined and null are records of the   *)
(*    same shape tagged "undefined" / "null";                              *)
(*  - a string that may be undefined is a string, Undef standing for the   *)
(*    undefined value;                                                     *)
(*  - a parsed JWS header is an ordered list of members (key, JSON value); *)
(*  - a JWS string is a sequence of symbols: one symbol per header member  *)
(*    in the base64url header segment, "." for the delimiter character,    *)
(*    and one symbol for the signature segment;                            *)
(*  - a typed-array view is (buffer, byteOffset, length).                  *)
(***************************************************************************)
EXTENDS Integers, Sequences, FiniteSets, TLC

VARIABLES
    options,      \* the options record the key was constructed from
    key,          \* the SchnorrSecp256k1VerificationKey2019 instance
    signerObj,    \* the object last returned by key.signer()
    verifierObj,  \* the object last returned by key.verifier()
    call,         \* the last operation: its input, its outcome, the primitive it invoked
    args          \* the arguments the caller holds for its calls

vars == <<options, key, signerObj, verifierObj, call, args>>

(***************************************************************************)
(* Bounds of the model.                                                    *)
(***************************************************************************)
MaxBuf == 2      \* bytes in the ArrayBuffer under a data view
MaxHdr == 3      \* symbols in a hand-made JWS header segment
MaxUrl == 3      \* chunks in a url given to the document loader

(***************************************************************************)
(* JavaScript values.                                                      *)
(***************************************************************************)
Undef == "<undefined>"
Absent == "<absent>"

TruthyStr(s) == s # Undef /\ s # ""

Jwk(x, d, kid) == [tag |-> "object", x |-> x, d |-> d, kid |-> kid]
Undefined == [tag |-> "undefined", x |-> Absent, d |-> Absent, kid |-> Absent]
Null == [tag |-> "null", x |-> Absent, d |-> Absent, kid |-> Absent]
EmptyObject == Jwk(Absent, Absent, Absent)

\* !v for a value that is an object, undefined or null
Truthy(v) == v.tag = "object"

\* { ...v }: a fresh object with v's own members (none for undefined and null)
Spread(v) == IF v.tag = "object" THEN v ELSE EmptyObject

\* delete o[f]
Delete(o, f) == [o EXCEPT ![f] = Absent]

(***************************************************************************)
(* keyUtils.getKid: the RFC 7638 thumbprint collaborator.  It is a         *)
(* deterministic digest of the JWK it is handed; the model keeps it        *)
(* injective in every member, so that a member the caller failed to strip  *)
(* shows in the result.                                                    *)
(***************************************************************************)
getKid(jwk) == "tp[" \o jwk.x \o "," \o jwk.d \o "," \o jwk.kid \o "]"

(***************************************************************************)
(* Fingerprints.  Each returns the value and the argument object as the    *)
(* call leaves it (the code works on a copy, so it is left as it was).     *)
(***************************************************************************)
fingerprintFromPublicKey_KeepKid(o) ==
    LET temp == Spread(o.publicKeyJwk)
    IN  [ret |-> getKid(temp), publicKeyJwk |-> o.publicKeyJwk]

fingerprintFromPublicKey(o) ==
    LET temp == Delete(Spread(o.publicKeyJwk), "kid")
    IN  [ret |-> getKid(temp), publicKeyJwk |-> o.publicKeyJwk]

fingerprint_InPlace(this) ==
    LET temp == Delete(Spread(this.publicKeyJwk), "kid")
    IN  [ret |-> getKid(temp),
         this |-> IF Truthy(this.publicKeyJwk)
                  THEN [this EXCEPT !.publicKeyJwk = temp] ELSE this]

fingerprint(this) ==
    LET temp == Delete(Spread(this.publicKeyJwk), "kid")
    IN  [ret |-> getKid(temp), this |-> this]

(***************************************************************************)
(* The constructor.                                                        *)
(***************************************************************************)
KeyType == "SchnorrSecp256k1VerificationKey2019"

\* lines 180-183: the fields copied from the options
AssignFields(o) ==
    [id |-> Undef,
     type |-> IF TruthyStr(o.type) THEN o.type ELSE KeyType,
     controller |-> o.controller,
     privateKeyJwk |-> o.privateKeyJwk,
     publicKeyJwk |-> o.publicKeyJwk]

DerivePublic_Never(this) == this

\* lines 185-188: the public JWK derived from the private one
DerivePublic(this) ==
    IF this.publicKeyJwk.tag = "undefined"
    THEN [this EXCEPT !.publicKeyJwk = Delete(Spread(this.privateKeyJwk), "d")]
    ELSE this

\* line 189: options.id || controller + '#' + fingerprint()
AssignId(o, this) ==
    IF TruthyStr(o.id)
    THEN [this EXCEPT !.id = o.id]
    ELSE LET fp == fingerprint(this)
         IN  [fp.this EXCEPT !.id = this.controller \o "#" \o fp.ret]

Constructor(o) == AssignId(o, DerivePublic(AssignFields(o)))

\* the static async wrapper
from(o) == Constructor(o)

(***************************************************************************)
(* Typed-array views and Buffer.from(arrayBuffer, byteOffset, length).     *)
(***************************************************************************)
Bytes == {0, 1}
Buffers == UNION {[1..n -> Bytes] : n \in 0..MaxBuf}
Views ==
    {[buffer |-> b, byteOffset |-> o, length |-> l] :
        <<b, o, l>> \in {t \in Buffers \X (0..MaxBuf) \X (0..MaxBuf) :
                            t[2] + t[3] <= Len(t[1])}}

BufferFrom(buffer, byteOffset, length) ==
    SubSeq(buffer, byteOffset + 1, byteOffset + length)

(***************************************************************************)
(* JSON values and objects.  An object is the ordered list of its members, *)
(* each key once.                                                          *)
(***************************************************************************)
JStr(s) == [t |-> "string", s |-> s, a |-> <<>>]
JBool(b) == [t |-> "boolean", s |-> IF b THEN "true" ELSE "false", a |-> <<>>]
JArr(a) == [t |-> "array", s |-> "", a |-> a]
JUndefined == [t |-> "undefined", s |-> "", a |-> <<>>]

Member(k, v) == [k |-> k, v |-> v]

HasKey(obj, k) == \E i \in 1..Len(obj) : obj[i].k = k

\* obj[k]: undefined for a missing member
Get(obj, k) ==
    IF HasKey(obj, k)
    THEN obj[CHOOSE i \in 1..Len(obj) : obj[i].k = k].v
    ELSE JUndefined

\* Object.keys(obj)
ObjectKeys(obj) == [i \in 1..Len(obj) |-> obj[i].k]

\* JSON.parse's treatment of a repeated key: the later value, at the first place
SetMember(obj, m) ==
    IF HasKey(obj, m.k)
    THEN [i \in 1..Len(obj) |-> IF obj[i].k = m.k THEN m ELSE obj[i]]
    ELSE Append(obj, m)

(***************************************************************************)
(* The header codec: base64url over JSON text.  A symbol of the header     *)
(* segment stands for the text of one member; "N" for the text null, "G"   *)
(* for text that is not JSON.  Symbols that are not of the header alphabet *)
(* (the delimiter, a signature symbol) decode to text that is not JSON.    *)
(***************************************************************************)
MemberSymbols == {"A", "W", "F", "T", "C", "D", "K"}
HeaderSymbols == MemberSymbols \cup {"N", "G"}

SymbolMember(c) ==
    CASE c = "A" -> Member("alg", JStr("SchnorrES256K"))
      [] c = "W" -> Member("alg", JStr("Wrong"))
      [] c = "F" -> Member("b64", JBool(FALSE))
      [] c = "T" -> Member("b64", JBool(TRUE))
      [] c = "C" -> Member("crit", JArr(<<"b64">>))
      [] c = "D" -> Member("crit", JArr(<<"b64", "b64">>))
      [] c = "K" -> Member("kid", JStr("key-1"))

\* base64url.decode: the JSON text, token by token
base64urlDecode(segment) ==
    [i \in 1..Len(segment) |->
        IF segment[i] \in MemberSymbols
        THEN [kind |-> "member", m |-> SymbolMember(segment[i])]
        ELSE IF segment[i] = "N"
        THEN [kind |-> "null", m |-> Member("", JUndefined)]
        ELSE [kind |-> "garbage", m |-> Member("", JUndefined)]]

\* base64url.encode(JSON.stringify(header))
base64urlEncode(header) ==
    [i \in 1..Len(header) |->
        CHOOSE c \in MemberSymbols : SymbolMember(c) = header[i]]

RECURSIVE ParseMembers(_, _)
ParseMembers(text, n) ==
    IF n = 0 THEN <<>> ELSE SetMember(ParseMembers(text, n - 1), text[n].m)

\* JSON.parse: a syntax error, the value null, or an object
JSONparse(text) ==
    IF text = <<>> \/ \E i \in 1..Len(text) : text[i].kind = "garbage"
    THEN [threw |-> TRUE, isObject |-> FALSE, obj |-> <<>>]
    ELSE IF \E i \in 1..Len(text) : text[i].kind = "null"
    THEN [threw |-> Len(text) > 1, isObject |-> FALSE, obj |-> <<>>]
    ELSE [threw |-> FALSE, isObject |-> TRUE, obj |-> ParseMembers(text, Len(text))]

\* the places where ".." occurs in a string
Delimiters(s) == {i \in 1..(Len(s) - 1) : s[i] = "." /\ s[i + 1] = "."}

Min(S) == CHOOSE i \in S : \A j \in S : i <= j

\* s.split('..')[0]
SplitFirst(s) ==
    IF Delimiters(s) = {} THEN s ELSE SubSeq(s, 1, Min(Delimiters(s)) - 1)

\* what follows the first ".."
SplitRest(s) ==
    IF Delimiters(s) = {} THEN <<>> ELSE SubSeq(s, Min(Delimiters(s)) + 2, Len(s))

(***************************************************************************)
(* SchnorrES256K, the signing primitive: an ideal detached-JWS signature.  *)
(* The signature segment is one symbol binding the encoded header, the     *)
(* payload and the key pair (named by the JWK's x); verification succeeds  *)
(* for exactly what was signed.                                            *)
(***************************************************************************)
SignatureSymbol(encodedHeader, payload, x) ==
    ToString(<<encodedHeader, payload, x>>)

signDetached(payload, privateKeyJwk, header) ==
    [raised |-> ~(privateKeyJwk.tag = "object" /\ privateKeyJwk.d # Absent
                    /\ privateKeyJwk.x # Absent),
     ret |-> base64urlEncode(header) \o <<".", ".">>
                \o <<SignatureSymbol(base64urlEncode(header), payload,
                                     privateKeyJwk.x)>>]

\* TRUE when verifyDetached raises
verifyDetached(signature, payload, publicKeyJwk) ==
    ~(/\ Delimiters(signature) # {}
      /\ publicKeyJwk.tag = "object"
      /\ publicKeyJwk.x # Absent
      /\ SplitRest(signature)
            = <<SignatureSymbol(SplitFirst(signature), payload, publicKeyJwk.x)>>)

(***************************************************************************)
(* Outcomes of a call.                                                     *)
(***************************************************************************)
Throw(e) == [kind |-> "throw", err |-> e, bool |-> FALSE, str |-> <<>>]
ReturnBool(b) == [kind |-> "return", err |-> "", bool |-> b, str |-> <<>>]
ReturnStr(s) == [kind |-> "return", err |-> "", bool |-> FALSE, str |-> s]
ReturnObj == [kind |-> "return", err |-> "", bool |-> FALSE, str |-> <<>>]

NoPrimitive ==
    [called |-> FALSE, fn |-> "", signature |-> <<>>, payload |-> <<>>,
     key |-> Undefined, header |-> <<>>, raised |-> FALSE]

NoPrivateKey == "No private key to sign with."
NoPublicKey == "No public key to verify with."
HeaderParseError == "Could not parse JWS header; "
InvalidHeaderShape == "Invalid JWS header."
InvalidHeaderParameters == "Invalid JWS header parameters for " \o KeyType \o "."

(***************************************************************************)
(* joseSignerFactory: which of the two signer objects it returns, and the  *)
(* sign function of each.                                                  *)
(***************************************************************************)
joseSignerFactory_Always(k) == "bound"

joseSignerFactory(k) ==
    IF ~Truthy(k.privateKeyJwk) THEN "throwing" ELSE "bound"

SignerHeader_WrongAlg ==
    <<Member("alg", JStr("Wrong")), Member("b64", JBool(FALSE)),
      Member("crit", JArr(<<"b64">>))>>

\* lines 57-61
SignerHeader ==
    <<Member("alg", JStr("SchnorrES256K")), Member("b64", JBool(FALSE)),
      Member("crit", JArr(<<"b64">>))>>

\* line 62
toBeSigned(data) == BufferFrom(data.buffer, data.byteOffset, data.length)

sign(signer, k, data) ==
    IF signer = "throwing"
    THEN [out |-> Throw(NoPrivateKey), prim |-> NoPrimitive]
    ELSE LET r == signDetached(toBeSigned(data), k.privateKeyJwk, SignerHeader)
         IN  [out |-> IF r.raised THEN Throw("signDetached") ELSE ReturnStr(r.ret),
              prim |-> [called |-> TRUE, fn |-> "signDetached",
                        signature |-> <<>>, payload |-> toBeSigned(data),
                        key |-> k.privateKeyJwk, header |-> SignerHeader,
                        raised |-> r.raised]]

(***************************************************************************)
(* joseVerifierFactory and the verify function.                            *)
(***************************************************************************)
joseVerifierFactory(k) ==
    IF ~Truthy(k.publicKeyJwk) THEN "throwing" ELSE "bound"

\* lines 107-111: the header matches all expectations
HeaderMatches(header) ==
    /\ Get(header, "alg") = JStr("SchnorrES256K")
    /\ Get(header, "b64") = JBool(FALSE)
    /\ Get(header, "crit").t = "array"
    /\ Len(Get(header, "crit").a) = 1
    /\ Get(header, "crit").a[1] = "b64"

\* lines 105-114: the condition under which verify throws
HeaderRejected(header) ==
    ~HeaderMatches(header) /\ Len(ObjectKeys(header)) = 3

\* lines 93-117: "ok", or the error thrown before the primitive is reached
HeaderCheck(signature) ==
    LET encodedHeader == SplitFirst(signature)
        parsed == JSONparse(base64urlDecode(encodedHeader))
    IN  IF parsed.threw THEN HeaderParseError
        ELSE IF ~parsed.isObject THEN InvalidHeaderShape
        ELSE IF HeaderRejected(parsed.obj) THEN InvalidHeaderParameters
        ELSE "ok"

payload_WholeBuffer(data) == data.buffer

\* line 121
payload(data) == BufferFrom(data.buffer, data.byteOffset, data.length)

verified_InitTrue(raised) == TRUE

\* lines 119-134: verified = false; try { await ...; verified = true } catch {}
verified(raised) == ~raised

verify(verifier, k, input) ==
    IF verifier = "throwing"
    THEN [out |-> Throw(NoPublicKey), prim |-> NoPrimitive]
    ELSE IF HeaderCheck(input.signature) # "ok"
    THEN [out |-> Throw(HeaderCheck(input.signature)), prim |-> NoPrimitive]
    ELSE LET raised == verifyDetached(input.signature, payload(input.data),
                                      k.publicKeyJwk)
         IN  [out |-> ReturnBool(verified(raised)),
              prim |-> [called |-> TRUE, fn |-> "verifyDetached",
                        signature |-> input.signature,
                        payload |-> payload(input.data),
                        key |-> k.publicKeyJwk, header |-> <<>>,
                        raised |-> raised]]

(***************************************************************************)
(* addEncodedPublicKey and publicNode.  A node is the record of the fields *)
(* the code touches.                                                       *)
(***************************************************************************)
addEncodedPublicKey(this, publicKeyNode) ==
    [publicKeyNode EXCEPT !.publicKeyJwk = this.publicKeyJwk]

publicNode(this) ==
    LET node == [id |-> this.id, type |-> this.type, controller |-> Undef,
                 publicKeyJwk |-> Undefined]
        withController == IF TruthyStr(this.controller)
                          THEN [node EXCEPT !.controller = this.controller]
                          ELSE node
    IN  addEncodedPublicKey(this, withController)

(***************************************************************************)
(* customLoader.  A url is a sequence of chunks of text, none a prefix of  *)
(* another, so that two urls are the same string exactly when they are the *)
(* same sequence.  contexts is an object literal: contexts[url] finds the  *)
(* table's own five properties and those it inherits from Object.prototype.*)
(***************************************************************************)
ContextUrls ==
    {"https://www.w3.org/ns/did/v1", "https://w3id.org/did/v1",
     "https://w3id.org/security/v1", "https://w3id.org/security/v2",
     "https://identity.foundation/SchnorrSecp256k1Signature2019/contexts/schnorr-v1.json"}

contexts(k) ==
    CASE k = "https://www.w3.org/ns/did/v1" -> "./contexts/did-v1.json"
      [] k = "https://w3id.org/did/v1" -> "./contexts/did-v0.11.json"
      [] k = "https://w3id.org/security/v1" -> "./contexts/security-v1.json"
      [] k = "https://w3id.org/security/v2" -> "./contexts/security-v2.json"
      [] k = "https://identity.foundation/SchnorrSecp256k1Signature2019/contexts/schnorr-v1.json"
            -> "./contexts/schnorr-v1.json"

\* names every object literal inherits (two of them)
ObjectPrototype == {"toString", "constructor"}

didDoc == "./didDoc"
ExampleDid == "did:example:123"

\* contexts[url]
ContextLookup(url) ==
    IF Len(url) = 1 /\ url[1] \in ContextUrls THEN contexts(url[1])
    ELSE IF Len(url) = 1 /\ url[1] \in ObjectPrototype
    THEN "Object.prototype." \o url[1]
    ELSE Undef

\* url.split('#')[0]
SplitHash(url) ==
    IF \E i \in 1..Len(url) : url[i] = "#"
    THEN SubSeq(url, 1, Min({i \in 1..Len(url) : url[i] = "#"}) - 1)
    ELSE url

customLoader(url) ==
    LET context == ContextLookup(url)
    IN  IF context # Undef
        THEN [kind |-> "return", contextUrl |-> "null", document |-> context,
              documentUrl |-> url, err |-> <<>>]
        ELSE IF SplitHash(url) = <<ExampleDid>>
        THEN [kind |-> "return", contextUrl |-> "null", document |-> didDoc,
              documentUrl |-> url, err |-> <<>>]
        ELSE [kind |-> "throw", contextUrl |-> "", document |-> "",
              documentUrl |-> <<>>,
              err |-> <<"No custom context support for ">> \o url]

(***************************************************************************)
(* Inputs.                                                                 *)
(***************************************************************************)
SeqsUpTo(S, n) == UNION {[1..m -> S] : m \in 0..n}

XValues == {"x1", "x2"}
KidValues == {"k1", "k2"}
JwkSet ==
    {Jwk(t[1], t[2], t[3]) :
        t \in (XValues \cup {Absent}) \X {"d1", Absent} \X (KidValues \cup {Absent})}

\* every shape of options: for the claims about the key object
KeyJwks == {j \in JwkSet : j.x # "x2" /\ j.kid # "k2"}
KeyOptions ==
    [id : {Undef, "", "did:example:123#key-1"},
     type : {Undef, "JsonWebKey2020"},
     controller : {"did:example:123", ""},
     privateKeyJwk : {Undefined} \cup {j \in KeyJwks : j.x # Absent /\ j.d # Absent},
     publicKeyJwk : {Undefined, Null} \cup KeyJwks]

\* the keys of the signing protocol: one pair, and the public half of another
ProtocolOptions ==
    [id : {Undef},
     type : {Undef},
     controller : {"did:example:123"},
     privateKeyJwk : {Undefined, Jwk("x1", "d1", Absent)},
     publicKeyJwk : {Undefined, Null, Jwk("x1", Absent, Absent),
                     Jwk("x2", Absent, Absent)}]

OneView == [buffer |-> <<0, 1>>, byteOffset |-> 1, length |-> 1]

NodeInputs ==
    {[id |-> Undef, type |-> Undef, controller |-> Undef, publicKeyJwk |-> Undefined],
     [id |-> "did:example:123#key-1", type |-> KeyType, controller |-> Undef,
      publicKeyJwk |-> Jwk("x2", Absent, "k1")]}

\* a symbol no signature segment the primitive makes is equal to
BadSignature == "~"
TamperSymbols == HeaderSymbols \cup {".", BadSignature}

UrlChunks == ContextUrls \cup ObjectPrototype \cup {"did:example:123", "#", "key-1"}

\* What the caller is about to do with the key: sign data and verify the pair
\* as it is ("roundTrip"), or with one character of the signature or one byte
\* of data changed, or verify a hand-made signature string ("crafted": any
\* header segment, with the right or a wrong signature symbol); or resolve a url.
Arg(kind, data, pos, sym, header, url) ==
    [kind |-> kind, data |-> data, pos |-> pos, sym |-> sym, header |-> header,
     url |-> url]

NoArgs == Arg("none", OneView, 0, "", <<>>, <<>>)

ProtocolArgs ==
    {Arg("roundTrip", d, 0, "", <<>>, <<>>) : d \in Views}
    \cup {Arg("tamperSignature", t[1], t[2], t[3], <<>>, <<>>) :
            t \in Views \X (1..(Len(SignerHeader) + 3)) \X TamperSymbols}
    \cup {Arg("tamperData", t[1], t[2], "", <<>>, <<>>) :
            t \in {u \in Views \X (1..MaxBuf) : u[2] <= u[1].length}}
    \cup {Arg("crafted", OneView, 0, t[2], t[1], <<>>) :
            t \in SeqsUpTo(HeaderSymbols, MaxHdr) \X {"right", "wrong"}}

LoaderArgs == {Arg("resolve", OneView, 0, "", <<>>, u) : u \in SeqsUpTo(UrlChunks, MaxUrl)}

Signed == call.op = "sign" /\ call.out.kind = "return"

\* the {data, signature} the caller hands to verify
VerifyInputs ==
    CASE args.kind = "roundTrip" /\ Signed ->
            {[data |-> call.data, signature |-> call.out.str]}
      [] args.kind = "tamperSignature" /\ Signed
            /\ args.pos <= Len(call.out.str) /\ call.out.str[args.pos] # args.sym ->
            {[data |-> call.data,
              signature |-> [call.out.str EXCEPT ![args.pos] = args.sym]]}
      [] args.kind = "tamperData" /\ Signed ->
            {[data |-> [call.data EXCEPT
                          !.buffer[call.data.byteOffset + args.pos] = 1 - @],
              signature |-> call.out.str]}
      [] args.kind = "crafted" ->
            {[data |-> args.data,
              signature |-> args.header \o <<".", ".">> \o
                 <<IF args.sym = "right"
                   THEN SignatureSymbol(args.header,
                            BufferFrom(args.data.buffer, args.data.byteOffset,
                                       args.data.length), "x1")
                   ELSE BadSignature>>]}
      [] OTHER -> {}

\* in the key specification: the pair just signed, and three hand-made strings
KeyVerifyInputs ==
    (IF Signed THEN {[data |-> call.data, signature |-> call.out.str]} ELSE {})
    \cup {[data |-> OneView, signature |-> h \o <<".", ".", BadSignature>>] :
            h \in {<<"A", "F", "C">>, <<"W", "F", "C">>, <<"G">>}}

(***************************************************************************)
(* The operations.                                                         *)
(***************************************************************************)
Signer ==
    /\ signerObj' = joseSignerFactory(key)
    /\ call' = [op |-> "signer", out |-> ReturnObj]
    /\ UNCHANGED <<options, key, verifierObj, args>>

Verifier ==
    /\ verifierObj' = joseVerifierFactory(key)
    /\ call' = [op |-> "verifier", out |-> ReturnObj]
    /\ UNCHANGED <<options, key, signerObj, args>>

Sign(data) ==
    /\ signerObj # "none"
    /\ LET r == sign(signerObj, key, data)
       IN  call' = [op |-> "sign", data |-> data, out |-> r.out, prim |-> r.prim]
    /\ UNCHANGED <<options, key, signerObj, verifierObj, args>>

\* signed: what the signer returned and passed to its primitive, when the input
\* comes from a pair the signer made
Verify(input) ==
    /\ verifierObj # "none"
    /\ LET r == verify(verifierObj, key, input)
       IN  call' = [op |-> "verify", input |-> input, out |-> r.out, prim |-> r.prim,
                    signed |-> IF Signed
                               THEN [data |-> call.data, signature |-> call.out.str,
                                     payload |-> call.prim.payload]
                               ELSE [data |-> OneView, signature |-> <<>>,
                                     payload |-> <<>>]]
    /\ UNCHANGED <<options, key, signerObj, verifierObj, args>>

Fingerprint ==
    /\ LET r == fingerprint(key)
       IN  /\ key' = r.this
           /\ call' = [op |-> "fingerprint", ret |-> r.ret, out |-> ReturnObj]
    /\ UNCHANGED <<options, signerObj, verifierObj, args>>

\* the static method, handed a public JWK of the caller's
FingerprintFromPublicKey(jwk) ==
    /\ LET r == fingerprintFromPublicKey([publicKeyJwk |-> jwk])
       IN  call' = [op |-> "fingerprintFromPublicKey", arg |-> jwk,
                    argAfter |-> r.publicKeyJwk, ret |-> r.ret, out |-> ReturnObj]
    /\ UNCHANGED <<options, key, signerObj, verifierObj, args>>

\* the static method, handed the key itself
FingerprintFromKey ==
    /\ LET r == fingerprintFromPublicKey(key)
       IN  /\ key' = [key EXCEPT !.publicKeyJwk = r.publicKeyJwk]
           /\ call' = [op |-> "fingerprintFromPublicKey", arg |-> key.publicKeyJwk,
                       argAfter |-> r.publicKeyJwk, ret |-> r.ret, out |-> ReturnObj]
    /\ UNCHANGED <<options, signerObj, verifierObj, args>>

AddEncodedPublicKey(node) ==
    /\ call' = [op |-> "addEncodedPublicKey", arg |-> node,
                node |-> addEncodedPublicKey(key, node), out |-> ReturnObj]
    /\ UNCHANGED <<options, key, signerObj, verifierObj, args>>

PublicNode ==
    /\ call' = [op |-> "publicNode", node |-> publicNode(key), out |-> ReturnObj]
    /\ UNCHANGED <<options, key, signerObj, verifierObj, args>>

Resolve(url) ==
    /\ call' = [op |-> "resolve", url |-> url, out |-> customLoader(url)]
    /\ UNCHANGED <<options, key, signerObj, verifierObj, args>>

(***************************************************************************)
(* Specifications.                                                         *)
(***************************************************************************)
Constructed(opts) ==
    /\ options \in opts
    /\ key \in {Constructor(options), from(options)}
    /\ call = [op |-> "new", out |-> ReturnObj]

\* The signing protocol.  The caller has a key and the arguments of one
\* scenario; it takes the key's signer and verifier, signs and verifies.
Init ==
    /\ Constructed(ProtocolOptions)
    /\ signerObj = "none"
    /\ verifierObj = "none"
    /\ args \in ProtocolArgs

Next ==
    \/ Signer
    \/ Verifier
    \/ Sign(args.data)
    \/ \E input \in VerifyInputs : Verify(input)

Spec == Init /\ [][Next]_vars

\* The key object: every shape of options, the key's operations in any order.
InitKey ==
    /\ Constructed(KeyOptions)
    /\ signerObj = "none"
    /\ verifierObj = "none"
    /\ args = NoArgs

NextKey ==
    \/ Signer
    \/ Verifier
    \/ Sign(args.data)
    \/ \E input \in KeyVerifyInputs : Verify(input)
    \/ Fingerprint
    \/ \E jwk \in JwkSet \cup {Undefined, Null} : FingerprintFromPublicKey(jwk)
    \/ FingerprintFromKey
    \/ \E node \in NodeInputs : AddEncodedPublicKey(node)
    \/ PublicNode

SpecKey == InitKey /\ [][NextKey]_vars

\* The document loader, given one url.
InitLoader ==
    /\ Constructed({[id |-> Undef, type |-> Undef, controller |-> "did:example:123",
                     privateKeyJwk |-> Undefined,
                     publicKeyJwk |-> Jwk("x1", Absent, Absent)]})
    /\ signerObj = "none"
    /\ verifierObj = "none"
    /\ args \in LoaderArgs

NextLoader == Resolve(args.url)

SpecLoader == InitLoader /\ [][NextLoader]_vars

(***************************************************************************)
(* The claims.                                                             *)
(***************************************************************************)
\* the bytes data[0..length-1] of a view, read one by one
SubRange(data) == [i \in 1..data.length |-> data.buffer[data.byteOffset + i]]

\* the public JWK a key built from options o is to hold
PublicOf(o) ==
    IF o.publicKeyJwk.tag # "undefined" THEN o.publicKeyJwk
    ELSE IF o.privateKeyJwk.tag = "object"
    THEN Jwk(o.privateKeyJwk.x, Absent, o.privateKeyJwk.kid)
    ELSE EmptyObject

PublicOnly == options.privateKeyJwk.tag = "undefined" /\ options.publicKeyJwk.tag = "object"
PrivateOnly == options.privateKeyJwk.tag = "object" /\ options.publicKeyJwk.tag = "undefined"

\* the key holds the private and the public half of one pair
SamePair ==
    /\ key.privateKeyJwk.tag = "object" /\ key.publicKeyJwk.tag = "object"
    /\ key.privateKeyJwk.d # Absent /\ key.privateKeyJwk.x # Absent
    /\ key.publicKeyJwk.x = key.privateKeyJwk.x

\* the header segment of the last verify call decodes to an object
HeaderObject ==
    LET parsed == JSONparse(base64urlDecode(SplitFirst(call.input.signature)))
    IN  IF ~parsed.threw /\ parsed.isObject THEN parsed.obj ELSE <<>>
HeaderIsObject ==
    LET parsed == JSONparse(base64urlDecode(SplitFirst(call.input.signature)))
    IN  ~parsed.threw /\ parsed.isObject

\* C1: a verify call of a verifier bound to public key material, on a signature
\* whose header passes validation, never throws; it calls verifyDetached with
\* the signature string as given, the sub-range of data and the key's public
\* JWK, and returns true exactly when the primitive did not raise.
C1_VerifyReflectsPrimitive ==
    (call.op = "verify" /\ verifierObj = "bound"
        /\ HeaderCheck(call.input.signature) = "ok") =>
        /\ call.out.kind = "return"
        /\ call.prim.called /\ call.prim.fn = "verifyDetached"
        /\ call.out.bool = ~call.prim.raised
        /\ call.prim.signature = call.input.signature
        /\ call.prim.payload = SubRange(call.input.data)
        /\ call.prim.key = key.publicKeyJwk

\* C1 witness: the primitive raised on a proper sub-range and verify returned false
C1_Witness ==
    /\ call.op = "verify" /\ verifierObj = "bound"
    /\ HeaderCheck(call.input.signature) = "ok"
    /\ call.prim.raised /\ call.out = ReturnBool(FALSE)
    /\ call.input.data.byteOffset > 0

\* C2: every header object that is not {alg: SchnorrES256K, b64: false,
\* crit: [b64]}, whatever the number of its keys, makes verify throw the
\* 'Invalid JWS header parameters' error without calling the primitive.
C2_BadHeaderAlwaysRejected ==
    (call.op = "verify" /\ verifierObj = "bound" /\ HeaderIsObject
        /\ ~(/\ Get(HeaderObject, "alg") = JStr("SchnorrES256K")
             /\ Get(HeaderObject, "b64") = JBool(FALSE)
             /\ Get(HeaderObject, "crit") = JArr(<<"b64">>))) =>
        /\ call.out = Throw(InvalidHeaderParameters)
        /\ ~call.prim.called

\* C3: for a key built from public material only, signer() returns a signer,
\* and every sign call of it throws 'No private key' and calls no primitive.
C3_PublicOnlySignFails ==
    PublicOnly =>
        /\ (call.op = "signer" => call.out.kind = "return" /\ signerObj = "throwing")
        /\ (call.op = "sign" => call.out = Throw(NoPrivateKey) /\ ~call.prim.called)

\* C3 witness: a sign call on a non-empty sub-range of a buffer, thrown
C3_Witness ==
    /\ PublicOnly /\ call.op = "sign" /\ call.out.kind = "throw"
    /\ call.data.byteOffset > 0 /\ call.data.length > 0

\* C4 as stated: for a key built from private material only, every verify call
\* throws 'No public key'.
C4_PrivateOnlyVerifyThrows ==
    (PrivateOnly /\ call.op = "verify") => call.out = Throw(NoPublicKey)

\* C4 amended: for a key built from private material only the public JWK is
\* derived from the private one, the verifier is the bound one and no verify
\* call throws 'No public key'; a verify call throws 'No public key' exactly
\* when the key's publicKeyJwk is falsy.
C4_PrivateOnlyVerifyProceeds ==
    /\ PrivateOnly =>
        /\ key.publicKeyJwk = Jwk(options.privateKeyJwk.x, Absent,
                                  options.privateKeyJwk.kid)
        /\ verifierObj # "throwing"
        /\ (call.op = "verify" => call.out # Throw(NoPublicKey))
    /\ call.op = "verify" =>
        (call.out = Throw(NoPublicKey) <=> key.publicKeyJwk.tag # "object")

C4_Witness ==
    /\ PrivateOnly /\ call.op = "verify" /\ call.prim.called
    /\ call.out.kind = "return"

Tampered == args.kind \in {"tamperSignature", "tamperData"}

\* C5 as stated: a valid pair with one byte of data or one character of the
\* signature string changed makes verify return false, never throw.
C5_TamperReturnsFalse ==
    (call.op = "verify" /\ SamePair /\ Tampered) => call.out = ReturnBool(FALSE)

\* C5 amended: such a pair is never verified as true.  With a byte of data or
\* the signature segment changed verify returns false; with a character of the
\* header segment or of the '..' delimiter changed it returns false or throws
\* one of the header errors.
C5_TamperNeverAccepted ==
    (call.op = "verify" /\ SamePair /\ Tampered) =>
        /\ call.out # ReturnBool(TRUE)
        /\ (args.kind = "tamperData" \/ args.pos > Len(SignerHeader) + 2)
                => call.out = ReturnBool(FALSE)
        /\ call.out.kind = "throw"
                => /\ args.kind = "tamperSignature"
                   /\ args.pos <= Len(SignerHeader) + 2
                   /\ ~call.prim.called
                   /\ call.out.err \in {HeaderParseError, InvalidHeaderShape,
                                        InvalidHeaderParameters}

\* C5 witness: a changed header character that makes verify throw, not return
C5_Witness ==
    /\ call.op = "verify" /\ SamePair /\ args.kind = "tamperSignature"
    /\ args.pos <= Len(SignerHeader)
    /\ call.out = Throw(InvalidHeaderParameters)

\* C6: every constructed key's publicKeyJwk has no member d, and for options
\* with a private JWK only it is that JWK without d.
C6_PublicNeverHoldsD ==
    /\ key.publicKeyJwk.d = Absent
    /\ PrivateOnly => key.publicKeyJwk = Jwk(options.privateKeyJwk.x, Absent,
                                             options.privateKeyJwk.kid)

\* C7: round trip.  For a key holding both halves of one pair, verifying what
\* the signer returned for the same data returns true: the signer's header
\* passes the verifier's header validation and both hand the primitive the
\* same sub-range of data.
C7_RoundTrip ==
    (call.op = "verify" /\ args.kind = "roundTrip") =>
        /\ call.input = [data |-> call.signed.data, signature |-> call.signed.signature]
        /\ verifierObj = "bound" => HeaderCheck(call.input.signature) = "ok"
        /\ SamePair =>
            /\ call.out = ReturnBool(TRUE)
            /\ call.prim.payload = call.signed.payload
            /\ call.signed.payload = SubRange(call.input.data)

\* C7 witness: a round trip on a proper sub-range of the buffer
C7_Witness ==
    /\ call.op = "verify" /\ args.kind = "roundTrip" /\ SamePair
    /\ call.out = ReturnBool(TRUE)
    /\ call.input.data.byteOffset > 0
    /\ call.input.data.length > 0
    /\ call.input.data.length < Len(call.input.data.buffer)

\* C8: both fingerprints are the thumbprint of the public JWK without kid: the
\* presence or value of kid does not change them, fingerprint() is
\* fingerprintFromPublicKey of the key's own public JWK, and the JWK handed
\* in keeps its kid.
C8_FingerprintIgnoresKid ==
    /\ call.op = "fingerprintFromPublicKey" =>
        /\ call.ret = getKid(Jwk(Spread(call.arg).x, Spread(call.arg).d, Absent))
        /\ call.argAfter = call.arg
        /\ \A kid \in KidValues \cup {Absent} :
              call.arg.tag = "object" =>
                fingerprintFromPublicKey(
                    [publicKeyJwk |-> [call.arg EXCEPT !.kid = kid]]).ret = call.ret
    /\ call.op = "fingerprint" =>
        /\ call.ret = getKid(Jwk(Spread(key.publicKeyJwk).x,
                                 Spread(key.publicKeyJwk).d, Absent))
        /\ call.ret = fingerprintFromPublicKey(
                          [publicKeyJwk |-> key.publicKeyJwk]).ret
        /\ key.publicKeyJwk = PublicOf(options)

C8_Witness ==
    /\ call.op = "fingerprintFromPublicKey"
    /\ call.arg.tag = "object" /\ call.arg.kid # Absent /\ call.arg.x # Absent
    /\ call.argAfter.kid = call.arg.kid

\* the fields of the key are those the constructor gave it
FieldsUnchanged ==
    /\ key.type = (IF TruthyStr(options.type) THEN options.type ELSE KeyType)
    /\ key.controller = options.controller
    /\ key.privateKeyJwk = options.privateKeyJwk
    /\ key.publicKeyJwk = PublicOf(options)

DefaultId ==
    options.controller \o "#"
        \o getKid(Jwk(PublicOf(options).x, PublicOf(options).d, Absent))

\* C9 as stated: without an explicit id the id is controller # fingerprint, an
\* explicit id is kept as given, and no operation changes a field of the key.
C9_IdAsGiven ==
    /\ key.id = (IF options.id = Undef THEN DefaultId ELSE options.id)
    /\ FieldsUnchanged

\* C9 amended: an id that is undefined or the empty string is replaced by
\* controller # fingerprint, a non-empty id is kept as given, and no operation
\* changes a field of the key.
C9_IdDefaulted ==
    /\ key.id = (IF options.id \in {Undef, ""} THEN DefaultId ELSE options.id)
    /\ FieldsUnchanged

C9_Witness ==
    /\ options.id = "" /\ key.id = DefaultId
    /\ key.publicKeyJwk.kid # Absent
    /\ call.op = "fingerprint"

\* C10: the loader is closed-world: a table key yields its document, a url
\* whose part before '#' is the example DID yields the example document, and
\* every other url fails with 'No custom context support for <url>'.
C10_ClosedWorld ==
    call.op = "resolve" =>
        call.out =
            IF Len(call.url) = 1 /\ call.url[1] \in ContextUrls
            THEN [kind |-> "return", contextUrl |-> "null",
                  document |-> contexts(call.url[1]), documentUrl |-> call.url,
                  err |-> <<>>]
            ELSE IF SplitHash(call.url) = <<"did:example:123">>
            THEN [kind |-> "return", contextUrl |-> "null", document |-> didDoc,
                  documentUrl |-> call.url, err |-> <<>>]
            ELSE [kind |-> "throw", contextUrl |-> "", document |-> "",
                  documentUrl |-> <<>>,
                  err |-> <<"No custom context support for ">> \o call.url]

====
